---- MODULE Spec2Model ----
(***************************************************************************)
(* Model of mpmath/functions/signals.py: the five signal functions         *)
(* squarew, trianglew, sawtoothw, unit_triangle and sigmoidw, evaluated    *)
(* under a numeric context.                                                *)
(*                                                                         *)
(* The arguments t, amplitude and period are numbers of the context (mpf   *)
(* values) and ctx.prec is the context's working precision in bits         *)
(* (mp.prec).  Every arithmetic operation and every context primitive      *)
(* returns its exact result rounded to ctx.prec bits, to nearest with ties *)
(* to even.  A number is written as the rational <<n, d>> in lowest terms  *)
(* with d > 0 that it equals.  The precisions the model runs at are a few  *)
(* bits, so that rounding acts on the inputs of the grids.                 *)
(***************************************************************************)
EXTENDS Integers, Sequences, FiniteSets, TLC

VARIABLES ctx, t, amplitude, period, call, result, frames, overlapped

vars == <<ctx, t, amplitude, period, call, result, frames, overlapped>>

(***************************************************************************)
(* Bounds of the input grids: t = n/2^TExp with |n| <= TMax, amplitude an  *)
(* integer up to AMax in magnitude, period = m/2^PExp with |m| <= PMax or  *)
(* +-2^PBig; KMax bounds the period index k of the properties.             *)
(***************************************************************************)
TExp == 2
TMax == 12
AMax == 2
PExp == 2
PMax == 8
PBig == 3
KMax == 24

(***************************************************************************)
(* Guard bits of the fixed-point series exp is computed with.              *)
(***************************************************************************)
ExpGuard == 18

(***************************************************************************)
(* Exact rational arithmetic.                                              *)
(***************************************************************************)
RECURSIVE GCD(_, _)
GCD(a, b) == IF b = 0 THEN a ELSE GCD(b, a % b)

IAbs(n) == IF n < 0 THEN -n ELSE n

RECURSIVE Pow2(_)
Pow2(k) == IF k = 0 THEN 1 ELSE 2 * Pow2(k - 1)

Norm(n, d) ==
    LET s == IF d < 0 THEN -1 ELSE 1
        g == GCD(IAbs(n), IAbs(d))
    IN  <<(s * n) \div g, (s * d) \div g>>

Num(n) == <<n, 1>>
Zero == Num(0)
One == Num(1)
Two == Num(2)
Half == <<1, 2>>
Quarter == <<1, 4>>

RAdd(a, b) == Norm(a[1] * b[2] + b[1] * a[2], a[2] * b[2])
RNeg(a) == <<-a[1], a[2]>>
RSub(a, b) == RAdd(a, RNeg(b))
RMul(a, b) == Norm(a[1] * b[1], a[2] * b[2])
RQuot(a, b) == Norm(a[1] * b[2], a[2] * b[1])
RAbs(a) == <<IAbs(a[1]), a[2]>>

RECURSIVE Less(_, _)
Less(a, b) ==
    LET fa == a[1] \div a[2]
        fb == b[1] \div b[2]
        ra == a[1] % a[2]
        rb == b[1] % b[2]
    IN  IF fa # fb THEN fa < fb
        ELSE IF rb = 0 THEN FALSE
        ELSE IF ra = 0 THEN TRUE
        ELSE Less(<<b[2], rb>>, <<a[2], ra>>)

Leq(a, b) == a = b \/ Less(a, b)

(***************************************************************************)
(* Rounding to a mantissa of p bits, to nearest, ties to even: n/d > 0 is  *)
(* scaled by 2^-e into [2^(p-1), 2^p) and rounded to an integer there.     *)
(***************************************************************************)
RECURSIVE RoundMan(_, _, _, _)
RoundMan(n, d, e, p) ==
    IF n \div Pow2(p) >= d THEN RoundMan(n, 2 * d, e + 1, p)
    ELSE IF n < Pow2(p - 1) * d THEN RoundMan(2 * n, d, e - 1, p)
    ELSE LET m == n \div d
             r == n % d
             mm == IF 2 * r > d \/ (2 * r = d /\ m % 2 = 1) THEN m + 1 ELSE m
         IN  IF e >= 0 THEN Num(mm * Pow2(e)) ELSE Norm(mm, Pow2(-e))

Round(x, p) ==
    IF x[1] = 0 THEN Zero
    ELSE IF x[1] > 0 THEN RoundMan(x[1], x[2], 0, p)
    ELSE RNeg(RoundMan(-x[1], x[2], 0, p))

(***************************************************************************)
(* Arithmetic of the numbers of the context at precision p.                *)
(***************************************************************************)
Add(a, b, p) == Round(RAdd(a, b), p)
Neg(a, p) == Round(RNeg(a), p)
Sub(a, b, p) == Round(RSub(a, b), p)
Mul(a, b, p) == Round(RMul(a, b), p)
Quot(a, b, p) == Round(RQuot(a, b), p)
abs(a, p) == Round(RAbs(a), p)

(***************************************************************************)
(* Outcome of an evaluation: a returned value or a raised exception.       *)
(***************************************************************************)
Return(v) == [raised |-> FALSE, exc |-> "", val |-> v]
Raise(e) == [raised |-> TRUE, exc |-> e, val |-> Zero]

Div(a, b, p) ==
    IF b[1] = 0 THEN Raise("ZeroDivisionError") ELSE Return(Quot(a, b, p))

(***************************************************************************)
(* The context primitives.                                                 *)
(***************************************************************************)
floor(c, x) == Round(Num(x[1] \div x[2]), c.prec)
frac(c, x) == Round(RSub(x, Num(x[1] \div x[2])), c.prec)
fabs(c, x) == Round(RAbs(x), c.prec)

\* sum of the terms 2^ExpGuard * x^k / k! of the series, x = xn/xd > 0,
\* each truncated to an integer
RECURSIVE ExpSeries(_, _, _, _, _)
ExpSeries(term, xn, xd, k, acc) ==
    IF term = 0 THEN acc
    ELSE ExpSeries((term * xn) \div (xd * k), xn, xd, k + 1, acc + term)

exp(c, x) ==
    IF x[1] = 0 THEN One
    ELSE LET E == ExpSeries(Pow2(ExpGuard), IAbs(x[1]), x[2], 1, 0)
         IN  IF x[1] > 0 THEN Round(Norm(E, Pow2(ExpGuard)), c.prec)
             ELSE Round(Norm(Pow2(ExpGuard), E), c.prec)

\* (-1)**k for an integer-valued k of either sign
PowNeg1(k) == IF k[1] % 2 = 0 THEN One ELSE Num(-1)

(***************************************************************************)
(* The five functions of signals.py.                                       *)
(***************************************************************************)
\* truncation toward zero, as int() does
trunc(x) == Num(IF x[1] >= 0 THEN x[1] \div x[2] ELSE -((-x[1]) \div x[2]))

\* squarew with the quotient truncated toward zero instead of floored
squarew_trunc(c, tt, A, P) ==
    LET q == Div(Mul(Two, tt, c.prec), P, c.prec)
    IN  IF q.raised THEN q ELSE Return(Mul(A, PowNeg1(trunc(q.val)), c.prec))

\* squarew with floor(t/P) for floor(2t/P)
squarew_whole(c, tt, A, P) ==
    LET q == Div(tt, P, c.prec)
    IN  IF q.raised THEN q ELSE Return(Mul(A, PowNeg1(floor(c, q.val)), c.prec))

squarew(c, tt, A, P) ==
    LET q == Div(Mul(Two, tt, c.prec), P, c.prec)
    IN  IF q.raised THEN q ELSE Return(Mul(A, PowNeg1(floor(c, q.val)), c.prec))

\* the triangle of a phase x: 2A(0.5 - |1 - 2 frac(x)|)
Triangle(c, A, x) ==
    LET p == c.prec
    IN  Mul(Mul(Two, A, p),
            Sub(Half, fabs(c, Sub(One, Mul(Two, frac(c, x), p), p)), p), p)

\* trianglew without the quarter-period phase shift
trianglew_nophase(c, tt, A, P) ==
    LET q == Div(tt, P, c.prec)
    IN  IF q.raised THEN q ELSE Return(Triangle(c, A, q.val))

\* trianglew with 1 - frac(..) for 1 - 2*frac(..)
trianglew_nodouble(c, tt, A, P) ==
    LET p == c.prec
        q == Div(tt, P, p)
    IN  IF q.raised THEN q
        ELSE Return(Mul(Mul(Two, A, p),
                 Sub(Half, fabs(c, Sub(One, frac(c, Add(q.val, Quarter, p)), p)), p), p))

trianglew(c, tt, A, P) ==
    LET q == Div(tt, P, c.prec)
    IN  IF q.raised THEN q ELSE Return(Triangle(c, A, Add(q.val, Quarter, c.prec)))

\* sawtoothw with the fractional part taken by truncation (x - int(x))
sawtoothw_fmod(c, tt, A, P) ==
    LET q == Div(tt, P, c.prec)
    IN  IF q.raised THEN q
        ELSE Return(Mul(A, Sub(q.val, trunc(q.val), c.prec), c.prec))

\* sawtoothw without the fractional part
sawtoothw_nofrac(c, tt, A, P) ==
    LET q == Div(tt, P, c.prec)
    IN  IF q.raised THEN q ELSE Return(Mul(A, q.val, c.prec))

\* sawtoothw that answers 0 for a zero period instead of raising
sawtoothw_guarded(c, tt, A, P) ==
    IF P = Zero THEN Return(Zero)
    ELSE Return(Mul(A, frac(c, Quot(tt, P, c.prec)), c.prec))

sawtoothw(c, tt, A, P) ==
    LET q == Div(tt, P, c.prec)
    IN  IF q.raised THEN q ELSE Return(Mul(A, frac(c, q.val), c.prec))

\* unit_triangle without the absolute value
unit_triangle_noabs(tt, A) ==
    LET p == ctx.prec
    IN  IF Leq(tt, Num(-1)) \/ Leq(One, tt) THEN Return(Zero)
        ELSE Return(Mul(A, Add(Neg(tt, p), One, p), p))

\* unit_triangle takes no context: its arithmetic is that of its arguments,
\* at the precision of the context they belong to
unit_triangle(tt, A) ==
    LET p == ctx.prec
    IN  IF Leq(tt, Num(-1)) \/ Leq(One, tt) THEN Return(Zero)
        ELSE Return(Mul(A, Add(Neg(abs(tt, p), p), One, p), p))

\* sigmoidw with exp(t) for exp(-t)
sigmoidw_possign(c, tt, A) == Div(A, Add(One, exp(c, tt), c.prec), c.prec)

sigmoidw(c, tt, A) ==
    Div(A, Add(One, exp(c, Neg(tt, c.prec)), c.prec), c.prec)

(***************************************************************************)
(* State machine.  The caller holds a context and the arguments of its     *)
(* next call; it changes the precision or an argument, or calls one of the *)
(* functions on the arguments it holds.  call and result are the last call *)
(* and its outcome; they are dropped when the caller changes an argument   *)
(* or the precision.                                                       *)
(***************************************************************************)
PrecSet == {4, 7}
TGrid == {Norm(n, Pow2(TExp)) : n \in -TMax..TMax}
AGrid == {Num(a) : a \in -AMax..AMax}
PGrid == {Norm(m, Pow2(PExp)) : m \in -PMax..PMax}
            \cup {Num(Pow2(PBig)), Num(-Pow2(PBig))}

NoCall == "none"
NoResult == Return(Zero)

\* the functions that take a period
Periodic == {"squarew", "trianglew", "sawtoothw"}

\* the threads that call concurrently, and the arguments they call with
Threads == {1, 2}
TCalls == {Norm(1, Pow2(TExp)), Norm(-TMax, Pow2(TExp)),
           Norm(TMax - 1, Pow2(TExp))}
ACalls == {Num(-AMax)}
PCalls == {Zero, Norm(-3, Pow2(PExp))}

\* The frame of a thread's call: the function and its arguments, the
\* context precision the call was entered at, the number pc of operations
\* evaluated so far, the values lhs and acc of the subexpressions evaluated
\* so far, and the outcome out once the call is done.
Idle ==
    [status |-> "idle", fn |-> NoCall, t |-> Zero, amplitude |-> Zero,
     period |-> Zero, prec |-> 0, pc |-> 0, lhs |-> Zero, acc |-> Zero,
     out |-> NoResult]

\* the signature defaults amplitude=1, period=1
Init ==
    /\ ctx \in {[prec |-> p] : p \in PrecSet}
    /\ t = Zero
    /\ amplitude = One
    /\ period = One
    /\ call = NoCall
    /\ result = NoResult
    /\ frames = [i \in Threads |-> Idle]
    /\ overlapped = [i \in Threads |-> FALSE]

\* A call returns (or raises) its outcome to the caller and changes nothing
\* else.
Returned(fn, out) ==
    /\ call' = fn
    /\ result' = out
    /\ UNCHANGED <<ctx, t, amplitude, period, frames, overlapped>>

CallSquarew ==
    Returned("squarew", squarew(ctx, t, amplitude, period))

CallTrianglew ==
    Returned("trianglew", trianglew(ctx, t, amplitude, period))

CallSawtoothw ==
    Returned("sawtoothw", sawtoothw(ctx, t, amplitude, period))

CallUnitTriangle ==
    Returned("unit_triangle", unit_triangle(t, amplitude))

CallSigmoidw ==
    Returned("sigmoidw", sigmoidw(ctx, t, amplitude))

\* the caller changes the working precision between calls (mp.prec = ...)
SetPrec(p) ==
    /\ p # ctx.prec
    /\ ctx' = [ctx EXCEPT !.prec = p]
    /\ call' = NoCall
    /\ result' = NoResult
    /\ UNCHANGED <<t, amplitude, period, frames, overlapped>>

\* the caller picks the arguments of its next call
SetT(tt) ==
    /\ tt # t
    /\ t' = tt
    /\ call' = NoCall
    /\ result' = NoResult
    /\ UNCHANGED <<ctx, amplitude, period, frames, overlapped>>

SetAmplitude(A) ==
    /\ A # amplitude
    /\ amplitude' = A
    /\ call' = NoCall
    /\ result' = NoResult
    /\ UNCHANGED <<ctx, t, period, frames, overlapped>>

SetPeriod(P) ==
    /\ P # period
    /\ period' = P
    /\ call' = NoCall
    /\ result' = NoResult
    /\ UNCHANGED <<ctx, t, amplitude, frames, overlapped>>

\* One caller; each call is evaluated in one step.
Next ==
    \/ CallSquarew
    \/ CallTrianglew
    \/ CallSawtoothw
    \/ CallUnitTriangle
    \/ CallSigmoidw
    \/ \E p \in PrecSet : SetPrec(p)
    \/ \E tt \in TGrid : SetT(tt)
    \/ \E A \in AGrid : SetAmplitude(A)
    \/ \E P \in PGrid : SetPeriod(P)

Spec == Init /\ [][Next]_vars

(***************************************************************************)
(* Concurrent calls.  Each thread evaluates its call one operation at a    *)
(* time, in the order Python evaluates the return expression; the threads' *)
(* operations interleave in any order.  The frame holds the call's locals; *)
(* the context is the one object all threads share, and every operation    *)
(* reads its precision when it executes.                                   *)
(***************************************************************************)
Running(i) == frames[i].status = "running"
Done(i) == frames[i].status = "done"

\* no call is being evaluated
Quiet == \A i \in Threads : ~Running(i)

\* the frame after an operation that yields v, and after the call ends
Goes(f, v) == [f EXCEPT !.pc = f.pc + 1, !.acc = v]
Ends(f, out) ==
    [f EXCEPT !.status = "done", !.out = out, !.pc = 0, !.lhs = Zero,
              !.acc = Zero]

\* a division: its quotient, or the exception that ends the call
Divides(f, a, b, p) ==
    LET q == Div(a, b, p)
    IN  IF q.raised THEN Ends(f, q) ELSE Goes(f, q.val)

\* thread i calls fn(tt, A, P): the arguments are bound to the frame
CallEnter(i, fn, tt, A, P) ==
    /\ ~Running(i)
    /\ frames' = [frames EXCEPT ![i] =
           [status |-> "running", fn |-> fn, t |-> tt, amplitude |-> A,
            period |-> P, prec |-> ctx.prec, pc |-> 0, lhs |-> Zero,
            acc |-> Zero, out |-> NoResult]]
    /\ overlapped' = [j \in Threads |->
           IF j = i THEN FALSE ELSE overlapped[j] \/ Running(j)]
    /\ UNCHANGED <<ctx, t, amplitude, period, call, result>>

\* thread i evaluates one operation; the calls the other threads are in
\* have then been overlapped by it
Step(i, f) ==
    /\ frames' = [frames EXCEPT ![i] = f]
    /\ overlapped' = [j \in Threads |->
           IF j = i THEN overlapped[j] ELSE overlapped[j] \/ Running(j)]
    /\ UNCHANGED <<ctx, t, amplitude, period, call, result>>

\* A*((-1)**ctx.floor(2*t/P)): 2*t, /P, floor, (-1)**, A*
OpSquarew(c, f) ==
    LET p == c.prec
    IN  CASE f.pc = 0 -> Goes(f, Mul(Two, f.t, p))
          [] f.pc = 1 -> Divides(f, f.acc, f.period, p)
          [] f.pc = 2 -> Goes(f, floor(c, f.acc))
          [] f.pc = 3 -> Goes(f, PowNeg1(f.acc))
          [] f.pc = 4 -> Ends(f, Return(Mul(f.amplitude, f.acc, p)))

StepSquarew(i) ==
    /\ Running(i)
    /\ frames[i].fn = "squarew"
    /\ Step(i, OpSquarew(ctx, frames[i]))

\* 2*A*(0.5 - ctx.fabs(1 - 2*ctx.frac(t/P + 0.25))): 2*A, t/P, + 0.25,
\* frac, 2*, 1 -, fabs, 0.5 -, and the product
OpTrianglew(c, f) ==
    LET p == c.prec
    IN  CASE f.pc = 0 -> [f EXCEPT !.pc = 1, !.lhs = Mul(Two, f.amplitude, p)]
          [] f.pc = 1 -> Divides(f, f.t, f.period, p)
          [] f.pc = 2 -> Goes(f, Add(f.acc, Quarter, p))
          [] f.pc = 3 -> Goes(f, frac(c, f.acc))
          [] f.pc = 4 -> Goes(f, Mul(Two, f.acc, p))
          [] f.pc = 5 -> Goes(f, Sub(One, f.acc, p))
          [] f.pc = 6 -> Goes(f, fabs(c, f.acc))
          [] f.pc = 7 -> Goes(f, Sub(Half, f.acc, p))
          [] f.pc = 8 -> Ends(f, Return(Mul(f.lhs, f.acc, p)))

StepTrianglew(i) ==
    /\ Running(i)
    /\ frames[i].fn = "trianglew"
    /\ Step(i, OpTrianglew(ctx, frames[i]))

\* A*ctx.frac(t/P): t/P, frac, A*
OpSawtoothw(c, f) ==
    LET p == c.prec
    IN  CASE f.pc = 0 -> Divides(f, f.t, f.period, p)
          [] f.pc = 1 -> Goes(f, frac(c, f.acc))
          [] f.pc = 2 -> Ends(f, Return(Mul(f.amplitude, f.acc, p)))

StepSawtoothw(i) ==
    /\ Running(i)
    /\ frames[i].fn = "sawtoothw"
    /\ Step(i, OpSawtoothw(ctx, frames[i]))

\* if t <= -1 or t >= 1: return 0; A*(-abs(t) + 1): the test, abs, -, + 1,
\* A*
OpUnitTriangle(f) ==
    LET p == ctx.prec
    IN  CASE f.pc = 0 -> IF Leq(f.t, Num(-1)) \/ Leq(One, f.t)
                         THEN Ends(f, Return(Zero))
                         ELSE [f EXCEPT !.pc = 1]
          [] f.pc = 1 -> Goes(f, abs(f.t, p))
          [] f.pc = 2 -> Goes(f, Neg(f.acc, p))
          [] f.pc = 3 -> Goes(f, Add(f.acc, One, p))
          [] f.pc = 4 -> Ends(f, Return(Mul(f.amplitude, f.acc, p)))

StepUnitTriangle(i) ==
    /\ Running(i)
    /\ frames[i].fn = "unit_triangle"
    /\ Step(i, OpUnitTriangle(frames[i]))

\* A / (1 + ctx.exp(-t)): -t, exp, 1 +, A /
OpSigmoidw(c, f) ==
    LET p == c.prec
    IN  CASE f.pc = 0 -> Goes(f, Neg(f.t, p))
          [] f.pc = 1 -> Goes(f, exp(c, f.acc))
          [] f.pc = 2 -> Goes(f, Add(One, f.acc, p))
          [] f.pc = 3 -> Ends(f, Div(f.amplitude, f.acc, p))

\* sigmoidw raising the context's precision for its exp and restoring it
\* after: it sets the precision when it negates t and resets it after exp
StepSigmoidw_workprec(i) ==
    /\ Running(i)
    /\ frames[i].fn = "sigmoidw"
    /\ frames' = [frames EXCEPT ![i] = OpSigmoidw(ctx, frames[i])]
    /\ overlapped' = [j \in Threads |->
           IF j = i THEN overlapped[j] ELSE overlapped[j] \/ Running(j)]
    /\ ctx' = IF frames[i].pc = 0
              THEN [ctx EXCEPT !.prec = CHOOSE p \in PrecSet :
                                           \A r \in PrecSet : r <= p]
              ELSE IF frames[i].pc = 1
              THEN [ctx EXCEPT !.prec = frames[i].prec]
              ELSE ctx
    /\ UNCHANGED <<t, amplitude, period, call, result>>

StepSigmoidw(i) ==
    /\ Running(i)
    /\ frames[i].fn = "sigmoidw"
    /\ Step(i, OpSigmoidw(ctx, frames[i]))

\* the precision is changed between calls only: it is an ambient setting
\* read during a call
SetPrecBetween(p) ==
    /\ Quiet
    /\ SetPrec(p)

NextThreads ==
    \/ \E i \in Threads, fn \in Periodic, tt \in TCalls, A \in ACalls,
          P \in PCalls : CallEnter(i, fn, tt, A, P)
    \/ \E i \in Threads, fn \in {"unit_triangle", "sigmoidw"}, tt \in TCalls,
          A \in ACalls : CallEnter(i, fn, tt, A, One)
    \/ \E i \in Threads : StepSquarew(i)
    \/ \E i \in Threads : StepTrianglew(i)
    \/ \E i \in Threads : StepSawtoothw(i)
    \/ \E i \in Threads : StepUnitTriangle(i)
    \/ \E i \in Threads : StepSigmoidw(i)
    \/ \E p \in PrecSet : SetPrecBetween(p)

SpecThreads == Init /\ [][NextThreads]_vars

(***************************************************************************)
(* Vocabulary of the properties.  The quantities below are exact: they are *)
(* computed in rational arithmetic from the caller's arguments.            *)
(***************************************************************************)
Called(fn) == call = fn
Pos(x) == x[1] > 0
Negative(x) == x[1] < 0
KRange == -KMax..KMax
HalfPeriod == RQuot(period, Two)
QuarterPeriod == RQuot(period, Num(4))

\* x is a number of the context: rounding to the working precision keeps it
Fits(x) == Round(x, ctx.prec) = x

Floor(x) == x[1] \div x[2]

SignedBy(k, A) == IF k % 2 = 0 THEN A ELSE RNeg(A)

\* floor of the quotient a/b of two rationals (b # 0), by integer division
FloorQuot(a, b) ==
    LET n == a[1] * b[2]
        d == a[2] * b[1]
    IN  IF d > 0 THEN n \div d ELSE (-n) \div (-d)

\* a/b - floor(a/b) of two rationals (b # 0), by integer remainder
FracQuot(a, b) ==
    LET n == a[1] * b[2]
        d == a[2] * b[1]
    IN  IF d > 0 THEN Norm(n % d, d) ELSE Norm((-n) % (-d), -d)

\* the exact phase u = frac(tt/P + 1/4) of the triangle and the exact value
\* of its formula, A(4u - 1) for u <= 1/2 and A(3 - 4u) for u >= 1/2
Phase(tt) == FracQuot(RAdd(tt, QuarterPeriod), period)

TriangleOf(u) ==
    IF Leq(u, Half) THEN RMul(amplitude, RSub(RMul(Num(4), u), One))
    ELSE RMul(amplitude, RSub(Num(3), RMul(Num(4), u)))

\* every intermediate result of trianglew at time tt is a number of the
\* context: t/P, t/P + 0.25, its fractional part u, 1 - 2u and 0.5 - |1 - 2u|
TriangleExact(tt) ==
    LET q == RQuot(tt, period)
        u == Phase(tt)
        e == RSub(One, RMul(Two, u))
    IN  /\ Fits(q)
        /\ Fits(RAdd(q, Quarter))
        /\ Fits(u)
        /\ Fits(e)
        /\ Fits(RSub(Half, RAbs(e)))

\* the function a call names, applied to another time
Apply(fn, tt) ==
    CASE fn = "squarew" -> squarew(ctx, tt, amplitude, period)
      [] fn = "trianglew" -> trianglew(ctx, tt, amplitude, period)
      [] fn = "sawtoothw" -> sawtoothw(ctx, tt, amplitude, period)
      [] fn = "unit_triangle" -> unit_triangle(tt, amplitude)
      [] fn = "sigmoidw" -> sigmoidw(ctx, tt, amplitude)

(***************************************************************************)
(* C1, as claimed: for a nonzero period squarew returns +A when            *)
(* floor(2t/P) is even and -A when it is odd, for every t.                 *)
(***************************************************************************)
C1_Original ==
    (Called("squarew") /\ period # Zero) =>
        /\ ~result.raised
        /\ result.val = SignedBy(FloorQuot(RMul(Two, t), period), amplitude)

(***************************************************************************)
(* C1, amended: for a nonzero period squarew returns +A when floor(q) is   *)
(* even and -A when it is odd, negative floors included, where q is 2t/P   *)
(* rounded to the working precision; when 2t/P is a number of the context  *)
(* that is A*(-1)^floor(2t/P).  For P > 0 it is +A on [0, P/2) and -A on   *)
(* [P/2, P); at t = k*P/2 it returns A*(-1)^k.                             *)
(***************************************************************************)
C1_SquareFormula ==
    (Called("squarew") /\ period # Zero) =>
        LET y == RQuot(RMul(Two, t), period)
        IN  /\ ~result.raised
            /\ result.val = SignedBy(Floor(Round(y, ctx.prec)), amplitude)
            /\ Fits(y) => result.val = SignedBy(Floor(y), amplitude)
            /\ (Pos(period) /\ Leq(Zero, t) /\ Less(t, HalfPeriod))
                  => result.val = amplitude
            /\ (Pos(period) /\ Leq(HalfPeriod, t) /\ Less(t, period))
                  => result.val = RNeg(amplitude)
            /\ \A k \in KRange :
                  t = RMul(Num(k), HalfPeriod)
                     => result.val = SignedBy(k, amplitude)

\* a call at a negative time whose quotient is rounded and has an odd floor
C1_Witness ==
    /\ Called("squarew")
    /\ Negative(t)
    /\ Pos(period)
    /\ amplitude # Zero
    /\ ~Fits(RQuot(RMul(Two, t), period))
    /\ Floor(Round(RQuot(RMul(Two, t), period), ctx.prec)) % 2 = 1
    /\ result.val = RNeg(amplitude)

(***************************************************************************)
(* C2, as claimed: for a nonzero period trianglew returns                  *)
(* 2A(0.5 - |1 - 2 frac(t/P + 0.25)|) for every t, and for every integer k *)
(* it is 0 at k*P, +A at k*P + P/4, 0 at k*P + P/2, -A at k*P + 3P/4.      *)
(***************************************************************************)
C2_Original ==
    (Called("trianglew") /\ period # Zero) =>
        /\ ~result.raised
        /\ result.val = TriangleOf(Phase(t))
        /\ \A k \in KRange :
              LET kP == RMul(Num(k), period)
              IN  /\ t = kP => result.val = Zero
                  /\ t = RAdd(kP, QuarterPeriod) => result.val = amplitude
                  /\ t = RAdd(kP, HalfPeriod) => result.val = Zero
                  /\ t = RAdd(kP, RMul(Num(3), QuarterPeriod))
                        => result.val = RNeg(amplitude)

(***************************************************************************)
(* C2, amended: for a nonzero period trianglew returns                     *)
(* 2A(0.5 - |1 - 2 frac(t/P + 0.25)|) rounded to the working precision     *)
(* whenever the intermediate results of the formula are numbers of the     *)
(* context; with u = frac(t/P + 1/4) that is A(4u - 1) for u <= 1/2 and    *)
(* A(3 - 4u) for u >= 1/2.  It is 0 at k*P, +A at k*P + P/4, 0 at          *)
(* k*P + P/2 and -A at k*P + 3P/4 for every integer k for which t/P and    *)
(* t/P + 0.25 are numbers of the context.                                  *)
(***************************************************************************)
C2_TriangleFormula ==
    (Called("trianglew") /\ period # Zero) =>
        LET q == RQuot(t, period)
            u == Phase(t)
            exact == Fits(q) /\ Fits(RAdd(q, Quarter))
        IN  /\ ~result.raised
            /\ Leq(Zero, u) /\ Less(u, One)
            /\ TriangleExact(t) => result.val = Round(TriangleOf(u), ctx.prec)
            /\ \A k \in KRange :
                  LET kP == RMul(Num(k), period)
                  IN  /\ (t = kP /\ exact) => result.val = Zero
                      /\ (t = RAdd(kP, QuarterPeriod) /\ exact)
                            => result.val = amplitude
                      /\ (t = RAdd(kP, HalfPeriod) /\ exact)
                            => result.val = Zero
                      /\ (t = RAdd(kP, RMul(Num(3), QuarterPeriod)) /\ exact)
                            => result.val = RNeg(amplitude)

\* a call at a negative time on the trough k*P + 3P/4 with k < 0
C2_Witness ==
    /\ Called("trianglew")
    /\ Negative(t)
    /\ Pos(period)
    /\ amplitude # Zero
    /\ \E k \in KRange :
          k < 0 /\ t = RAdd(RMul(Num(k), period), RMul(Num(3), QuarterPeriod))
    /\ TriangleExact(t)
    /\ result.val = RNeg(amplitude)

(***************************************************************************)
(* C3, as claimed: for a nonzero period sawtoothw returns A*frac(t/P) for  *)
(* every t, and exactly 0 at every boundary t = k*P.                       *)
(***************************************************************************)
C3_Original ==
    (Called("sawtoothw") /\ period # Zero) =>
        /\ ~result.raised
        /\ result.val = RMul(amplitude, FracQuot(t, period))
        /\ \A k \in KRange : t = RMul(Num(k), period) => result.val = Zero

(***************************************************************************)
(* C3, amended: for a nonzero period sawtoothw returns A*frac(t/P) rounded *)
(* to the working precision whenever t/P and its fractional part are       *)
(* numbers of the context; for P > 0 on [k*P, (k+1)*P) that is             *)
(* A*(t - k*P)/P, and at every boundary t = k*P of either sign the result  *)
(* is exactly 0.                                                           *)
(***************************************************************************)
C3_SawtoothFormula ==
    (Called("sawtoothw") /\ period # Zero) =>
        LET q == RQuot(t, period)
            u == FracQuot(t, period)
            exact == Fits(q) /\ Fits(u)
        IN  /\ ~result.raised
            /\ exact => result.val = Round(RMul(amplitude, u), ctx.prec)
            /\ \A k \in KRange :
                  LET kP == RMul(Num(k), period)
                  IN  /\ t = kP => result.val = Zero
                      /\ (Pos(period) /\ Leq(kP, t) /\ Less(t, RAdd(kP, period))
                            /\ exact)
                            => result.val =
                                  Round(RMul(amplitude, RQuot(RSub(t, kP), period)),
                                        ctx.prec)

\* a call on a period boundary at a negative time: 0, not A
C3_Witness ==
    /\ Called("sawtoothw")
    /\ Negative(t)
    /\ period # Zero
    /\ amplitude # Zero
    /\ \E k \in KRange : k # 0 /\ t = RMul(Num(k), period)
    /\ result.val = Zero

(***************************************************************************)
(* C4, as claimed: unit_triangle returns 0 for |t| >= 1 and A(1 - |t|) for *)
(* |t| < 1, a value in [0, A], and A at t = 0.                             *)
(***************************************************************************)
C4_Original ==
    Called("unit_triangle") =>
        /\ ~result.raised
        /\ Leq(One, RAbs(t)) => result.val = Zero
        /\ Less(RAbs(t), One) =>
              /\ result.val = RMul(amplitude, RSub(One, RAbs(t)))
              /\ Leq(Zero, result.val) /\ Leq(result.val, amplitude)
        /\ t = Zero => result.val = amplitude

(***************************************************************************)
(* C4, amended: unit_triangle returns 0 for |t| >= 1; for |t| < 1 it       *)
(* returns A(1 - |t|) rounded to the working precision when 1 - |t| is a   *)
(* number of the context, and a value between 0 and A: in [0, A] when      *)
(* A >= 0 and in [A, 0] when A < 0; at t = 0 it returns A.                 *)
(***************************************************************************)
C4_UnitTriangle ==
    Called("unit_triangle") =>
        /\ ~result.raised
        /\ Leq(One, RAbs(t)) => result.val = Zero
        /\ Less(RAbs(t), One) =>
              /\ Fits(RSub(One, RAbs(t)))
                    => result.val = Round(RMul(amplitude, RSub(One, RAbs(t))),
                                          ctx.prec)
              /\ Leq(Zero, amplitude)
                    => (Leq(Zero, result.val) /\ Leq(result.val, amplitude))
              /\ Negative(amplitude)
                    => (Leq(amplitude, result.val) /\ Leq(result.val, Zero))
        /\ t = Zero => result.val = amplitude

\* a call inside the pulse at a negative time with a negative amplitude
C4_Witness ==
    /\ Called("unit_triangle")
    /\ Negative(t)
    /\ Less(RAbs(t), One)
    /\ Negative(amplitude)
    /\ Negative(result.val)

(***************************************************************************)
(* C5, as claimed: for a nonzero period of either sign, each of squarew,   *)
(* trianglew and sawtoothw takes the same value at t + P as at t, for      *)
(* every t.                                                                *)
(***************************************************************************)
C5_Original ==
    (call \in Periodic /\ period # Zero) =>
        Apply(call, RAdd(t, period)) = result

\* t + P is a number of the context and the quotients the function forms at
\* t and at t + P (for trianglew also the quotient plus 0.25) are exact
PeriodExact(fn) ==
    LET t2 == RAdd(t, period)
        q == RQuot(t, period)
        q2 == RQuot(t2, period)
    IN  /\ Fits(t2)
        /\ fn = "squarew" => (Fits(RMul(Two, q)) /\ Fits(RMul(Two, q2)))
        /\ fn = "sawtoothw" => (Fits(q) /\ Fits(q2))
        /\ fn = "trianglew" =>
              /\ Fits(q) /\ Fits(q2)
              /\ Fits(RAdd(q, Quarter)) /\ Fits(RAdd(q2, Quarter))

(***************************************************************************)
(* C5, amended: for a nonzero period of either sign, each of squarew,      *)
(* trianglew and sawtoothw takes the same value at t + P as at t whenever  *)
(* t + P and the quotients formed at t and at t + P (2t/P for squarew, t/P *)
(* for sawtoothw, t/P and t/P + 0.25 for trianglew) are numbers of the     *)
(* context.                                                                *)
(***************************************************************************)
C5_Periodicity ==
    (call \in Periodic /\ period # Zero) =>
        /\ ~result.raised
        /\ PeriodExact(call) => Apply(call, RAdd(t, period)) = result

\* a sawtooth call with a negative period and a value that is not 0, equal
\* to the value one period later
C5_Witness ==
    /\ Called("sawtoothw")
    /\ Negative(period)
    /\ Pos(t)
    /\ PeriodExact("sawtoothw")
    /\ ~result.raised
    /\ result.val # Zero
    /\ sawtoothw(ctx, RAdd(t, period), amplitude, period) = result

(***************************************************************************)
(* C6, as claimed: squarew in {-A, +A}, trianglew in [-A, A], sawtoothw in *)
(* [0, A), for every amplitude.                                            *)
(***************************************************************************)
C6_Original ==
    (call \in Periodic /\ period # Zero) =>
        /\ Called("squarew") => result.val \in {amplitude, RNeg(amplitude)}
        /\ Called("trianglew") =>
              (Leq(RNeg(amplitude), result.val) /\ Leq(result.val, amplitude))
        /\ Called("sawtoothw") =>
              (Leq(Zero, result.val) /\ Less(result.val, amplitude))

(***************************************************************************)
(* C6, amended: squarew in {-A, +A}; trianglew in [-|A|, |A|]; sawtoothw   *)
(* between 0 and A, both ends included: in [0, A] when A >= 0 and in       *)
(* [A, 0] when A <= 0.                                                     *)
(***************************************************************************)
C6_Ranges ==
    (call \in Periodic /\ period # Zero) =>
        /\ ~result.raised
        /\ Called("squarew") => result.val \in {amplitude, RNeg(amplitude)}
        /\ Called("trianglew") =>
              /\ Leq(RNeg(RAbs(amplitude)), result.val)
              /\ Leq(result.val, RAbs(amplitude))
        /\ Called("sawtoothw") =>
              /\ Leq(Zero, amplitude)
                    => (Leq(Zero, result.val) /\ Leq(result.val, amplitude))
              /\ Leq(amplitude, Zero)
                    => (Leq(amplitude, result.val) /\ Leq(result.val, Zero))

\* a sawtooth call with a negative amplitude whose fractional part rounded to
\* 1: the value is A
C6_Witness ==
    /\ Called("sawtoothw")
    /\ period # Zero
    /\ Negative(amplitude)
    /\ FracQuot(t, period) # Zero
    /\ result.val = amplitude

(***************************************************************************)
(* C7: with period = 0 squarew, trianglew and sawtoothw end in a raised    *)
(* ZeroDivisionError and return no value; with a nonzero period they       *)
(* return a value; unit_triangle and sigmoidw never raise.                 *)
(***************************************************************************)
C7_ZeroPeriod ==
    /\ (call \in Periodic /\ period = Zero)
          => (result.raised /\ result.exc = "ZeroDivisionError")
    /\ (call \in Periodic /\ period # Zero) => ~result.raised
    /\ call \in {"unit_triangle", "sigmoidw"} => ~result.raised

\* a sawtooth call with period 0 that raised
C7_Witness ==
    /\ Called("sawtoothw")
    /\ period = Zero
    /\ result.raised
    /\ result.exc = "ZeroDivisionError"

(***************************************************************************)
(* C8: the functions are pure.  Whatever the order in which the operations *)
(* of concurrent calls interleave and whatever calls ran before or in      *)
(* between, two calls of the same function with the same arguments at the  *)
(* same context precision return the same outcome, which is the outcome of *)
(* the call evaluated alone; and an operation of a call changes neither    *)
(* the context nor another thread's call nor the caller's values, so that  *)
(* the precision is after the call what it was before.                     *)
(***************************************************************************)
SameCall(f, g) ==
    /\ f.fn = g.fn
    /\ f.t = g.t
    /\ f.amplitude = g.amplitude
    /\ f.period = g.period
    /\ f.prec = g.prec

\* the call of a frame evaluated alone, under the context as it is
Alone(f) ==
    CASE f.fn = "squarew" -> squarew(ctx, f.t, f.amplitude, f.period)
      [] f.fn = "trianglew" -> trianglew(ctx, f.t, f.amplitude, f.period)
      [] f.fn = "sawtoothw" -> sawtoothw(ctx, f.t, f.amplitude, f.period)
      [] f.fn = "unit_triangle" -> unit_triangle(f.t, f.amplitude)
      [] f.fn = "sigmoidw" -> sigmoidw(ctx, f.t, f.amplitude)

SameAsOther ==
    \A i, j \in Threads :
        (Done(i) /\ Done(j) /\ SameCall(frames[i], frames[j]))
            => frames[i].out = frames[j].out

SameAsAlone ==
    \A i \in Threads :
        (Done(i) /\ frames[i].prec = ctx.prec)
            => frames[i].out = Alone(frames[i])

PrecisionKept ==
    \A i \in Threads : Running(i) => ctx.prec = frames[i].prec

CallFrame ==
    \A i \in Threads :
        frames'[i] # frames[i] =>
            /\ ctx' = ctx
            /\ \A j \in Threads \ {i} : frames'[j] = frames[j]
            /\ UNCHANGED <<t, amplitude, period, call, result>>

\* C8: interleaved calls with the same arguments at the same precision
\* return the same outcome, that of the call evaluated alone, and no
\* operation of a call changes the context, another call or the caller's
\* values
C8_Pure ==
    [] (SameAsOther /\ SameAsAlone /\ PrecisionKept) /\ [][CallFrame]_vars

\* two threads have returned from sawtoothw calls with the same arguments
\* at the same precision, each overlapped by operations of the other, with
\* a quotient t/P that the precision rounds, and the outcomes agree
C8_Witness ==
    /\ Done(1)
    /\ Done(2)
    /\ frames[1].fn = "sawtoothw"
    /\ SameCall(frames[1], frames[2])
    /\ overlapped[1]
    /\ overlapped[2]
    /\ frames[1].period # Zero
    /\ Round(RQuot(frames[1].t, frames[1].period), frames[1].prec)
           # RQuot(frames[1].t, frames[1].period)
    /\ ~frames[1].out.raised
    /\ frames[1].out = frames[2].out

(***************************************************************************)
(* C9, as claimed: sigmoidw returns a value strictly in (0, A) that        *)
(* increases with t, and A/2 at t = 0, for every amplitude.                *)
(***************************************************************************)
C9_Original ==
    Called("sigmoidw") =>
        /\ ~result.raised
        /\ Less(Zero, result.val) /\ Less(result.val, amplitude)
        /\ \A u \in TGrid :
              Less(t, u) => Less(result.val, sigmoidw(ctx, u, amplitude).val)
        /\ t = Zero => result.val = RQuot(amplitude, Two)

(***************************************************************************)
(* C9, amended: sigmoidw returns A/(1 + exp(-t)) with each operation       *)
(* rounded to the working precision, A/2 exactly at t = 0; for A > 0 the   *)
(* value lies in (0, A] and does not decrease with t; for A < 0 it lies in *)
(* [A, 0) and does not increase with t; for A = 0 it is 0.                 *)
(***************************************************************************)
C9_Sigmoid ==
    Called("sigmoidw") =>
        LET p == ctx.prec
            e == exp(ctx, Round(RNeg(t), p))
        IN  /\ ~result.raised
            /\ Pos(e)
            /\ result.val = Round(RQuot(amplitude, Round(RAdd(One, e), p)), p)
            /\ t = Zero => result.val = RQuot(amplitude, Two)
            /\ Pos(amplitude) =>
                  /\ Less(Zero, result.val) /\ Leq(result.val, amplitude)
                  /\ \A u \in TGrid :
                        Less(t, u)
                           => Leq(result.val, sigmoidw(ctx, u, amplitude).val)
            /\ Negative(amplitude) =>
                  /\ Leq(amplitude, result.val) /\ Less(result.val, Zero)
                  /\ \A u \in TGrid :
                        Less(t, u)
                           => Leq(sigmoidw(ctx, u, amplitude).val, result.val)
            /\ amplitude = Zero => result.val = Zero

\* a call with a negative amplitude at a positive time where 1 + exp(-t)
\* rounded to 1: the value is A
C9_Witness ==
    /\ Called("sigmoidw")
    /\ Negative(amplitude)
    /\ Pos(t)
    /\ result.val = amplitude

(***************************************************************************)
(* C10, as claimed: for a nonzero period squarew and trianglew take at     *)
(* t + P/2 the negative of their value at t, for every t.                  *)
(***************************************************************************)
C10_Original ==
    (call \in {"squarew", "trianglew"} /\ period # Zero) =>
        Apply(call, RAdd(t, HalfPeriod)).val = RNeg(result.val)

\* t + P/2 is a number of the context and at t and at t + P/2 the quotient
\* 2t/P of squarew, or every intermediate result of trianglew, is exact
HalfExact(fn) ==
    LET t2 == RAdd(t, HalfPeriod)
    IN  /\ Fits(t2)
        /\ fn = "squarew" =>
              /\ Fits(RQuot(RMul(Two, t), period))
              /\ Fits(RQuot(RMul(Two, t2), period))
        /\ fn = "trianglew" => (TriangleExact(t) /\ TriangleExact(t2))

(***************************************************************************)
(* C10, amended: for a nonzero period squarew and trianglew take at        *)
(* t + P/2 the negative of their value at t whenever t + P/2 is a number   *)
(* of the context and the intermediate results at t and at t + P/2 (the    *)
(* quotient 2t/P for squarew; t/P, t/P + 0.25, its fractional part u,      *)
(* 1 - 2u and 0.5 - |1 - 2u| for trianglew) are numbers of the context.    *)
(***************************************************************************)
C10_HalfPeriod ==
    (call \in {"squarew", "trianglew"} /\ period # Zero) =>
        /\ ~result.raised
        /\ HalfExact(call) =>
              /\ ~Apply(call, RAdd(t, HalfPeriod)).raised
              /\ Apply(call, RAdd(t, HalfPeriod)).val = RNeg(result.val)

\* a triangle call strictly between a zero and a peak, negative period
C10_Witness ==
    /\ Called("trianglew")
    /\ Negative(period)
    /\ amplitude # Zero
    /\ HalfExact("trianglew")
    /\ ~result.raised
    /\ result.val \notin {Zero, amplitude, RNeg(amplitude)}

====
